---- MODULE Spec2Model ----
(***************************************************************************)
(* Envoy bootstrap renderer: GetRenderedBootstrapConfig builds the         *)
(* bootstrap parameters from an optional ProxyMetrics policy and executes  *)
(* the embedded bootstrap.yaml.tpl template over them.                     *)
(*                                                                         *)
(* Go values are modelled as follows.  A pointer is a sequence of length   *)
(* 0 (nil) or 1.  A []string slice whose storage the code may write is a   *)
(* header [base, len, cap] over an array: "store" is the caller's backing  *)
(* array, "fresh" an array allocated by append during the call.  A text    *)
(* document is the sequence of its lines.                                  *)
(***************************************************************************)
EXTENDS Integers, Sequences, FiniteSets, TLC

VARIABLES
    bootstrapTmpl,      \* the compiled template (package variable)
    store,              \* the caller's backing array behind its prefix lists
    pc,                 \* per goroutine: position in GetRenderedBootstrapConfig
    proxyMetrics,       \* per goroutine: the argument of the call
    argValue,           \* per goroutine: the argument's lists as they read at call time
    enablePrometheus,   \* per goroutine: local of the call
    metricSinks,        \* per goroutine: local of the call
    ProxyStatsMatcher,  \* per goroutine: local of the call
    fresh,              \* per goroutine: the array append allocated, if any
    cfg,                \* per goroutine: the bootstrapConfig of the call
    ret,                \* per goroutine: what the call returned
    prev                \* an earlier call's argument value and result, kept by the caller

vars == <<bootstrapTmpl, store, pc, proxyMetrics, argValue, enablePrometheus,
          metricSinks, ProxyStatsMatcher, fresh, cfg, ret, prev>>

----------------------------------------------------------------------------
\* Bounds of the model.

\* longest sink list of a policy
MaxSinks == 3
\* longest caller-supplied prefix list
MaxPrefixs == 2
\* capacity of the caller's backing array
StoreCap == 5
\* longest sink list of a policy that also overrides the stats matcher
MaxFewSinks == 1

Goroutines == {"g1", "g2"}
Main == "g1"

Hosts == {"m", "n"}
Ports == {4317, 4318}
\* what the caller wrote into its array, cell by cell, repeating
PrefixVals == <<"custom_", "server", "http.">>
SuffixVals == <<"upstream_rq_timeout">>
\* the regular expression .*\.rq_<5>=.* , one character per element
RegexVals == << <<".", "*", "\\", ".", "r", "q", "_", "<", "5", ">", "=", ".", "*">> >>

----------------------------------------------------------------------------
\* Constants of the package.

envoyCfgFileName == "bootstrap.yaml"
envoyGatewayXdsServerHost == "envoy-gateway"
envoyAdminAddress == "127.0.0.1"
envoyAdminPort == 19000
envoyAdminAccessLogPath == "/dev/null"
DefaultXdsServerPort == 18000
envoyReadinessAddress == "0.0.0.0"
EnvoyReadinessPort == 19001
EnvoyReadinessPath == "/ready"
\* the comma-separated constant, one element per field or separator
RequiredEnvoyStatsMatcherInclusionPrefixes ==
    <<"cluster_manager", ",", "listener_manager", ",", "server", ",", "cluster.xds-grpc">>

----------------------------------------------------------------------------
\* Library functions the code calls.

Nil == <<>>
Ptr(v) == <<v>>
Deref(p) == p[1]

Digit(d) ==
    CASE d = 0 -> "0" [] d = 1 -> "1" [] d = 2 -> "2" [] d = 3 -> "3" [] d = 4 -> "4"
      [] d = 5 -> "5" [] d = 6 -> "6" [] d = 7 -> "7" [] d = 8 -> "8" [] d = 9 -> "9"

RECURSIVE ItoaNat(_)
ItoaNat(n) == IF n < 10 THEN Digit(n) ELSE ItoaNat(n \div 10) \o Digit(n % 10)

\* the %d verb of fmt and the template's printing of an integer
Itoa(n) == IF n < 0 THEN "-" \o ItoaNat(-n) ELSE ItoaNat(n)

\* SprintfAddr with the port left out of the format
SprintfAddrHostOnly(host, port) == host

\* fmt.Sprintf("%s:%d", host, port)
SprintfAddr(host, port) == host \o ":" \o Itoa(port)

\* strings.Split(s, ","), s given as its fields and separators
RECURSIVE Split(_)
Split(s) ==
    IF s = <<>> THEN <<"">>
    ELSE IF Head(s) = "," THEN <<"">> \o Split(Tail(s))
    ELSE LET rest == Split(Tail(s))
         IN  <<Head(s) \o Head(rest)>> \o Tail(rest)

\* the template function js on one character
JSEscapeChar(c) ==
    CASE c = "\\" -> "\\\\"
      [] c = "'"  -> "\\'"
      [] c = "\"" -> "\\u0022"
      [] c = "<"  -> "\\u003C"
      [] c = ">"  -> "\\u003E"
      [] c = "&"  -> "\\u0026"
      [] c = "="  -> "\\u003D"
      [] OTHER    -> c

RECURSIVE JSEscape(_)
JSEscape(s) == IF s = <<>> THEN "" ELSE JSEscapeChar(Head(s)) \o JSEscape(Tail(s))

----------------------------------------------------------------------------
\* Slices.

NilSlice == [base |-> "nil", len |-> 0, cap |-> 0]

\* the elements of slice s, read from the caller's array mem or the call's own array own
ReadSlice(s, mem, own) ==
    IF s.base = "store" THEN SubSeq(mem, 1, s.len)
    ELSE IF s.base = "fresh" THEN SubSeq(own, 1, s.len)
    ELSE <<>>

\* append that assigns the new elements instead of appending them
appendOverwrites(s, elems, mem, own) ==
    [slice |-> [base |-> "fresh", len |-> Len(elems), cap |-> Len(elems)],
     mem   |-> mem,
     own   |-> elems]

\* append(s, elems...): in place when the capacity allows, else into a new array.
\* The result is the new header, the caller's array and the call's own array.
append(s, elems, mem, own) ==
    LET n == s.len + Len(elems)
        put(a) == [i \in 1..Len(a) |->
                      IF i > s.len /\ i <= n THEN elems[i - s.len] ELSE a[i]]
    IN  IF n <= s.cap /\ s.base = "store"
        THEN [slice |-> [s EXCEPT !.len = n], mem |-> put(mem), own |-> own]
        ELSE IF n <= s.cap /\ s.base = "fresh"
        THEN [slice |-> [s EXCEPT !.len = n], mem |-> mem, own |-> put(own)]
        ELSE [slice |-> [base |-> "fresh", len |-> n, cap |-> n],
              mem   |-> mem,
              own   |-> ReadSlice(s, mem, own) \o elems]

----------------------------------------------------------------------------
\* The template bootstrap.yaml.tpl, section by section.  p is the
\* bootstrapParameters value with its lists as the execution reads them.

\* bootstrap.yaml.tpl lines 1-10
AdminBlock(p) ==
    << "admin:",
       "  access_log:",
       "  - name: envoy.access_loggers.file",
       "    typed_config:",
       "      \"@type\": type.googleapis.com/envoy.extensions.access_loggers.file.v3.FileAccessLog",
       "      path: " \o p.AdminServer.AccessLogPath,
       "  address:",
       "    socket_address:",
       "      address: " \o p.AdminServer.Address,
       "      port_value: " \o Itoa(p.AdminServer.Port) >>

\* bootstrap.yaml.tpl lines 11-14
StatsConfigHead ==
    << "stats_config:",
       "  stats_matcher:",
       "    inclusion_list:",
       "      patterns:" >>

\* bootstrap.yaml.tpl lines 26-39
DynamicResources ==
    << "dynamic_resources:",
       "  ads_config:",
       "    api_type: DELTA_GRPC",
       "    transport_api_version: V3",
       "    grpc_services:",
       "    - envoy_grpc:",
       "        cluster_name: xds_cluster",
       "    set_node_on_first_message_only: true",
       "  lds_config:",
       "    ads: {}",
       "    resource_api_version: V3",
       "  cds_config:",
       "    ads: {}",
       "    resource_api_version: V3" >>

\* bootstrap.yaml.tpl lines 43-48
StatsSinkEntry(idx, sink) ==
    << "- name: \"envoy.stat_sinks.open_telemetry\"",
       "  typed_config:",
       "    \"@type\": type.googleapis.com/envoy.extensions.stat_sinks.open_telemetry.v3.SinkConfig",
       "    grpc_service:",
       "      envoy_grpc:",
       "        cluster_name: otel_metric_sink_" \o Itoa(idx) >>

\* bootstrap.yaml.tpl lines 51-66
ListenerHead(p) ==
    << "static_resources:",
       "  listeners:",
       "  - name: envoy-gateway-proxy-ready-" \o p.ReadyServer.Address \o "-" \o Itoa(p.ReadyServer.Port),
       "    address:",
       "      socket_address:",
       "        address: " \o p.ReadyServer.Address,
       "        port_value: " \o Itoa(p.ReadyServer.Port),
       "        protocol: TCP",
       "    filter_chains:",
       "    - filters:",
       "      - name: envoy.filters.network.http_connection_manager",
       "        typed_config:",
       "          \"@type\": type.googleapis.com/envoy.extensions.filters.network.http_connection_manager.v3.HttpConnectionManager",
       "          stat_prefix: eg-ready-http",
       "          route_config:",
       "            name: local_route" >>

\* bootstrap.yaml.tpl lines 68-76
PrometheusRoute ==
    << "            virtual_hosts:",
       "            - name: prometheus_stats",
       "              domains:",
       "              - \"*\"",
       "              routes:",
       "              - match:",
       "                  prefix: /stats/prometheus",
       "                route:",
       "                  cluster: prometheus_stats" >>

\* bootstrap.yaml.tpl lines 78-89
HttpFilters(p) ==
    << "          http_filters:",
       "          - name: envoy.filters.http.health_check",
       "            typed_config:",
       "              \"@type\": type.googleapis.com/envoy.extensions.filters.http.health_check.v3.HealthCheck",
       "              pass_through_mode: false",
       "              headers:",
       "              - name: \":path\"",
       "                string_match:",
       "                  exact: " \o p.ReadyServer.ReadinessPath,
       "          - name: envoy.filters.http.router",
       "            typed_config:",
       "              \"@type\": type.googleapis.com/envoy.extensions.filters.http.router.v3.Router" >>

\* bootstrap.yaml.tpl lines 92-104
PrometheusCluster(p) ==
    << "  - name: prometheus_stats",
       "    connect_timeout: 0.250s",
       "    type: STATIC",
       "    lb_policy: ROUND_ROBIN",
       "    load_assignment:",
       "      cluster_name: prometheus_stats",
       "      endpoints:",
       "      - lb_endpoints:",
       "        - endpoint:",
       "            address:",
       "              socket_address:",
       "                address: " \o p.AdminServer.Address,
       "                port_value: " \o Itoa(p.AdminServer.Port) >>

\* bootstrap.yaml.tpl lines 107-124
OtelCluster(idx, sink) ==
    << "  - name: otel_metric_sink_" \o Itoa(idx),
       "    connect_timeout: 0.250s",
       "    type: STRICT_DNS",
       "    typed_extension_protocol_options:",
       "      envoy.extensions.upstreams.http.v3.HttpProtocolOptions:",
       "        \"@type\": \"type.googleapis.com/envoy.extensions.upstreams.http.v3.HttpProtocolOptions\"",
       "        explicit_http_config:",
       "          http2_protocol_options: {}",
       "    lb_policy: ROUND_ROBIN",
       "    load_assignment:",
       "      cluster_name: otel_metric_sink_" \o Itoa(idx),
       "      endpoints:",
       "      - lb_endpoints:",
       "        - endpoint:",
       "            address:",
       "              socket_address:",
       "                address: " \o sink.Address,
       "                port_value: " \o Itoa(sink.Port) >>

\* bootstrap.yaml.tpl lines 126-161
XdsCluster(p) ==
    << "  - connect_timeout: 10s",
       "    load_assignment:",
       "      cluster_name: xds_cluster",
       "      endpoints:",
       "      - lb_endpoints:",
       "        - endpoint:",
       "            address:",
       "              socket_address:",
       "                address: " \o p.XdsServer.Address,
       "                port_value: " \o Itoa(p.XdsServer.Port),
       "    typed_extension_protocol_options:",
       "      envoy.extensions.upstreams.http.v3.HttpProtocolOptions:",
       "        \"@type\": \"type.googleapis.com/envoy.extensions.upstreams.http.v3.HttpProtocolOptions\"",
       "        explicit_http_config:",
       "          http2_protocol_options: {}",
       "    name: xds_cluster",
       "    type: STRICT_DNS",
       "    transport_socket:",
       "      name: envoy.transport_sockets.tls",
       "      typed_config:",
       "        \"@type\": type.googleapis.com/envoy.extensions.transport_sockets.tls.v3.UpstreamTlsContext",
       "        common_tls_context:",
       "          tls_params:",
       "            tls_maximum_protocol_version: TLSv1_3",
       "          tls_certificate_sds_secret_configs:",
       "          - name: xds_certificate",
       "            sds_config:",
       "              path_config_source:",
       "                path: \"/sds/xds-certificate.json\"",
       "              resource_api_version: V3",
       "          validation_context_sds_secret_config:",
       "            name: xds_trusted_ca",
       "            sds_config:",
       "              path_config_source:",
       "                path: \"/sds/xds-trusted-ca.json\"",
       "              resource_api_version: V3" >>

\* bootstrap.yaml.tpl lines 162-169
LayeredRuntime ==
    << "layered_runtime:",
       "  layers:",
       "  - name: runtime-0",
       "    rtds_layer:",
       "      rtds_config:",
       "        ads: {}",
       "        resource_api_version: V3",
       "      name: runtime-0" >>

\* bootstrap.yaml.tpl lines 15-17
PrefixPatterns(p) ==
    [i \in 1..Len(p.ProxyStatsMatcher.InclusionPrefixs) |->
        "      - prefix: \"" \o p.ProxyStatsMatcher.InclusionPrefixs[i] \o "\""]

\* bootstrap.yaml.tpl lines 18-20
SuffixPatterns(p) ==
    [i \in 1..Len(p.ProxyStatsMatcher.InclusionSuffixs) |->
        "      - suffix: \"" \o p.ProxyStatsMatcher.InclusionSuffixs[i] \o "\""]

RECURSIVE Flatten(_)
Flatten(ss) == IF ss = <<>> THEN <<>> ELSE Head(ss) \o Flatten(Tail(ss))

\* bootstrap.yaml.tpl lines 21-25
RegexPatterns(p) ==
    Flatten([i \in 1..Len(p.ProxyStatsMatcher.InclusionRegexps) |->
        << "      - safe_regex:",
           "          google_re2: {}",
           "          regex: \"" \o JSEscape(p.ProxyStatsMatcher.InclusionRegexps[i]) \o "\"" >>])

\* StatsSinks numbering its entries from one
StatsSinksOneBased(p) ==
    IF Len(p.OtelMetricSinks) > 0
    THEN <<"stats_sinks:">> \o
         Flatten([i \in 1..Len(p.OtelMetricSinks) |->
                     StatsSinkEntry(i, p.OtelMetricSinks[i])])
    ELSE <<>>

\* bootstrap.yaml.tpl lines 40-50; the range index is zero-based
StatsSinks(p) ==
    IF Len(p.OtelMetricSinks) > 0
    THEN <<"stats_sinks:">> \o
         Flatten([i \in 1..Len(p.OtelMetricSinks) |->
                     StatsSinkEntry(i - 1, p.OtelMetricSinks[i])])
    ELSE <<>>

\* OtelClusters numbering its clusters from one
OtelClustersOneBased(p) ==
    Flatten([i \in 1..Len(p.OtelMetricSinks) |-> OtelCluster(i, p.OtelMetricSinks[i])])

\* bootstrap.yaml.tpl lines 106-125; the range index is zero-based
OtelClusters(p) ==
    Flatten([i \in 1..Len(p.OtelMetricSinks) |-> OtelCluster(i - 1, p.OtelMetricSinks[i])])

\* bootstrap.yaml.tpl lines 1-169: the text a successful execution writes
ExecuteTemplate(p) ==
    AdminBlock(p)
    \o StatsConfigHead \o PrefixPatterns(p) \o SuffixPatterns(p) \o RegexPatterns(p)
    \o DynamicResources
    \o StatsSinks(p)
    \o ListenerHead(p)
    \o (IF p.EnablePrometheus THEN PrometheusRoute ELSE <<>>)
    \o HttpFilters(p)
    \o <<"  clusters:">>
    \o (IF p.EnablePrometheus THEN PrometheusCluster(p) ELSE <<>>)
    \o OtelClusters(p)
    \o XdsCluster(p)
    \o LayeredRuntime

----------------------------------------------------------------------------
\* The inputs: what a caller may pass.

NoOtel == [OpenTelemetry |-> Nil]
OtelSink(h, p) == [OpenTelemetry |-> Ptr([Host |-> h, Port |-> p])]
SinkEntries == {NoOtel} \cup {OtelSink(h, p) : h \in Hosts, p \in Ports}

SinkLists(max) == UNION {[1..n -> SinkEntries] : n \in 0..max}

\* the caller's prefix lists: nil, or store[0:len] with or without spare capacity
PrefixSlices ==
    {NilSlice} \cup
    {s \in [base : {"store"}, len : 0..MaxPrefixs, cap : 1..StoreCap] :
        s.cap \in {s.len, StoreCap}}

SuffixRegexLists ==
    {[suffixes |-> <<>>, regexps |-> <<>>], [suffixes |-> SuffixVals, regexps |-> RegexVals]}

StatsMatchers ==
    {Nil} \cup
    {Ptr([InclusionPrefixs |-> s, InclusionSuffixs |-> l.suffixes,
          InclusionRegexps |-> l.regexps]) : s \in PrefixSlices, l \in SuffixRegexLists}

PoliciesWith(sinkLists, matchers) ==
    {Nil} \cup
    {Ptr([Prometheus |-> pr, Sinks |-> sk, ProxyStatsMatcher |-> m]) :
        pr \in {Nil, Ptr("prometheus")}, sk \in sinkLists, m \in matchers}

\* The sink loop and the stats matcher share no local of the call: a policy has a
\* long sink list and no stats matcher, or a short sink list and any stats matcher.
Policies ==
    PoliciesWith(SinkLists(MaxSinks), {Nil}) \cup
    PoliciesWith(SinkLists(MaxFewSinks), StatsMatchers)

\* the policies of a caller that keeps an earlier result
RememberPolicies == PoliciesWith({<<>>, <<OtelSink("m", 4317)>>}, StatsMatchers)

\* the policies of callers that call side by side
ConcurrentPolicies == PoliciesWith({<<>>}, StatsMatchers)

\* the caller's backing array: its entries, then zero-valued cells
InitialStore ==
    [i \in 1..StoreCap |->
        IF i <= MaxPrefixs THEN PrefixVals[((i - 1) % Len(PrefixVals)) + 1] ELSE ""]

\* the argument as a value: the lists it reads as at the time of the call
PolicyValue(p, mem) ==
    LET m == IF p = Nil THEN Nil ELSE Deref(p).ProxyStatsMatcher
    IN  [Prometheus |-> p # Nil /\ Deref(p).Prometheus # Nil,
         Sinks      |-> IF p = Nil THEN <<>> ELSE Deref(p).Sinks,
         Prefixs    |-> IF m = Nil THEN <<>>
                        ELSE ReadSlice(Deref(m).InclusionPrefixs, mem, <<>>),
         Suffixs    |-> IF m = Nil THEN <<>> ELSE Deref(m).InclusionSuffixs,
         Regexps    |-> IF m = Nil THEN <<>> ELSE Deref(m).InclusionRegexps]

----------------------------------------------------------------------------
\* GetRenderedBootstrapConfig, step by step.

\* EnablePrometheusOf looking at the policy alone
EnablePrometheusIfPolicy(p) == p # Nil

\* lines 151-154
EnablePrometheusOf(p) == p # Nil /\ Deref(p).Prometheus # Nil

\* lines 156-173: the loop over proxyMetrics.Sinks from entry i on
RECURSIVE SinkLoop(_, _, _, _)
SinkLoop(sinks, i, addresses, sinksOut) ==
    IF i > Len(sinks) THEN sinksOut
    ELSE LET sink == sinks[i]
         IN  IF sink.OpenTelemetry = Nil
             THEN SinkLoop(sinks, i + 1, addresses, sinksOut)
             ELSE LET ot   == Deref(sink.OpenTelemetry)
                      addr == SprintfAddr(ot.Host, ot.Port)
                  IN  IF addr \in addresses
                      THEN SinkLoop(sinks, i + 1, addresses, sinksOut)
                      ELSE SinkLoop(sinks, i + 1, addresses \cup {addr},
                               Append(sinksOut, [Address |-> ot.Host, Port |-> ot.Port]))

\* the loop leaving at the first sink without an OpenTelemetry target
RECURSIVE SinkLoopBreaks(_, _, _, _)
SinkLoopBreaks(sinks, i, addresses, sinksOut) ==
    IF i > Len(sinks) \/ sinks[i].OpenTelemetry = Nil THEN sinksOut
    ELSE LET ot   == Deref(sinks[i].OpenTelemetry)
             addr == SprintfAddr(ot.Host, ot.Port)
         IN  IF addr \in addresses
             THEN SinkLoopBreaks(sinks, i + 1, addresses, sinksOut)
             ELSE SinkLoopBreaks(sinks, i + 1, addresses \cup {addr},
                      Append(sinksOut, [Address |-> ot.Host, Port |-> ot.Port]))

MetricSinksStopAtNil(p) ==
    IF p = Nil THEN <<>> ELSE SinkLoopBreaks(Deref(p).Sinks, 1, {}, <<>>)

\* lines 145-173
MetricSinksOf(p) == IF p = Nil THEN <<>> ELSE SinkLoop(Deref(p).Sinks, 1, {}, <<>>)

ZeroStatsMatcher ==
    [InclusionPrefixs |-> NilSlice, InclusionSuffixs |-> <<>>, InclusionRegexps |-> <<>>]

\* lines 148, 175-181
StatsMatcherOf(p) ==
    IF p # Nil /\ Deref(p).ProxyStatsMatcher # Nil
    THEN LET m == Deref(Deref(p).ProxyStatsMatcher)
         IN  [InclusionPrefixs |-> m.InclusionPrefixs,
              InclusionSuffixs |-> m.InclusionSuffixs,
              InclusionRegexps |-> m.InclusionRegexps]
    ELSE ZeroStatsMatcher

ZeroConfig == [parameters |-> Nil, rendered |-> <<>>]
ZeroReturn == [doc |-> <<>>, err |-> Nil]

\* lines 144-182: the call starts and reads the policy
Begin(g, p) ==
    /\ pc[g] = "idle"
    /\ pc' = [pc EXCEPT ![g] = "append"]
    /\ proxyMetrics' = [proxyMetrics EXCEPT ![g] = p]
    /\ argValue' = [argValue EXCEPT ![g] = PolicyValue(p, store)]
    /\ enablePrometheus' = [enablePrometheus EXCEPT ![g] = EnablePrometheusOf(p)]
    /\ metricSinks' = [metricSinks EXCEPT ![g] = MetricSinksOf(p)]
    /\ ProxyStatsMatcher' = [ProxyStatsMatcher EXCEPT ![g] = StatsMatcherOf(p)]
    /\ UNCHANGED <<bootstrapTmpl, store, fresh, cfg, ret, prev>>

\* line 183
RequiredPrefixes == Split(RequiredEnvoyStatsMatcherInclusionPrefixes)

\* line 183: the baseline prefixes are appended to the local prefix list
AppendBaseline(g) ==
    /\ pc[g] = "append"
    /\ LET r == append(ProxyStatsMatcher[g].InclusionPrefixs, RequiredPrefixes,
                       store, fresh[g])
       IN  /\ ProxyStatsMatcher' =
                 [ProxyStatsMatcher EXCEPT ![g].InclusionPrefixs = r.slice]
           /\ store' = r.mem
           /\ fresh' = [fresh EXCEPT ![g] = r.own]
    /\ pc' = [pc EXCEPT ![g] = "render"]
    /\ UNCHANGED <<bootstrapTmpl, proxyMetrics, argValue, enablePrometheus,
                   metricSinks, cfg, ret, prev>>

\* lines 186-206
NewConfig(g) ==
    [parameters |->
        Ptr([XdsServer   |-> [Address |-> envoyGatewayXdsServerHost,
                              Port    |-> DefaultXdsServerPort],
             AdminServer |-> [Address       |-> envoyAdminAddress,
                              Port          |-> envoyAdminPort,
                              AccessLogPath |-> envoyAdminAccessLogPath],
             ReadyServer |-> [Address       |-> envoyReadinessAddress,
                              Port          |-> EnvoyReadinessPort,
                              ReadinessPath |-> EnvoyReadinessPath],
             EnablePrometheus  |-> enablePrometheus[g],
             OtelMetricSinks   |-> metricSinks[g],
             ProxyStatsMatcher |-> ProxyStatsMatcher[g]]),
     rendered |-> <<>>]

\* ParametersRead reading the prefix array up to its capacity
ParametersReadToCap(b, g) ==
    LET s == Deref(b.parameters).ProxyStatsMatcher.InclusionPrefixs
    IN  [Deref(b.parameters) EXCEPT !.ProxyStatsMatcher.InclusionPrefixs =
            ReadSlice([s EXCEPT !.len = s.cap], store, fresh[g])]

\* the parameters as the template execution of goroutine g reads them from memory
ParametersRead(b, g) ==
    [Deref(b.parameters) EXCEPT !.ProxyStatsMatcher.InclusionPrefixs =
        ReadSlice(Deref(b.parameters).ProxyStatsMatcher.InclusionPrefixs, store, fresh[g])]

ExecError == "template: " \o envoyCfgFileName \o ": execution failed"

\* how many lines a failing execution has written; -1: the execution succeeds
ExecOutcomes == {-1, 0, 10}

\* bootstrapTmpl.Execute(buf, b.parameters): the text written to buf and the error
Execute(p, outcome) ==
    IF outcome >= 0
    THEN [buf |-> SubSeq(ExecuteTemplate(p), 1, outcome), err |-> Ptr(ExecError)]
    ELSE [buf |-> ExecuteTemplate(p), err |-> Nil]

\* render storing the buffer before it looks at the error
renderKeepsPartial(b, exec) ==
    [b   |-> [b EXCEPT !.rendered = exec.buf],
     err |-> IF exec.err # Nil
             THEN Ptr("failed to render bootstrap config: " \o Deref(exec.err))
             ELSE Nil]

\* lines 133-141: the config after render, and render's error
render(b, exec) ==
    IF exec.err # Nil
    THEN [b   |-> b,
          err |-> Ptr("failed to render bootstrap config: " \o Deref(exec.err))]
    ELSE [b |-> [b EXCEPT !.rendered = exec.buf], err |-> Nil]

\* lines 208-212
ReturnOf(r) ==
    IF r.err # Nil THEN [doc |-> <<>>, err |-> r.err]
    ELSE [doc |-> r.b.rendered, err |-> Nil]

\* lines 186-212: the config is built and rendered, and the call returns
Render(g) ==
    /\ pc[g] = "render"
    /\ bootstrapTmpl = envoyCfgFileName
    /\ \E outcome \in ExecOutcomes :
          LET b == NewConfig(g)
              r == render(b, Execute(ParametersRead(b, g), outcome))
          IN  /\ cfg' = [cfg EXCEPT ![g] = r.b]
              /\ ret' = [ret EXCEPT ![g] = ReturnOf(r)]
    /\ pc' = [pc EXCEPT ![g] = "done"]
    /\ UNCHANGED <<bootstrapTmpl, store, proxyMetrics, argValue, enablePrometheus,
                   metricSinks, ProxyStatsMatcher, fresh, prev>>

ZeroValue == PolicyValue(Nil, <<>>)

\* the caller is done with the result of the call; the call's frame is gone
Forget(g) ==
    /\ pc' = [pc EXCEPT ![g] = "idle"]
    /\ proxyMetrics' = [proxyMetrics EXCEPT ![g] = Nil]
    /\ argValue' = [argValue EXCEPT ![g] = ZeroValue]
    /\ enablePrometheus' = [enablePrometheus EXCEPT ![g] = FALSE]
    /\ metricSinks' = [metricSinks EXCEPT ![g] = <<>>]
    /\ ProxyStatsMatcher' = [ProxyStatsMatcher EXCEPT ![g] = ZeroStatsMatcher]
    /\ fresh' = [fresh EXCEPT ![g] = <<>>]
    /\ cfg' = [cfg EXCEPT ![g] = ZeroConfig]
    /\ ret' = [ret EXCEPT ![g] = ZeroReturn]
    /\ UNCHANGED <<bootstrapTmpl, store>>

\* the caller drops the result of a finished call
Discard(g) ==
    /\ pc[g] = "done"
    /\ Forget(g)
    /\ UNCHANGED prev

\* the caller keeps the argument value and the document of a call that succeeded
Remember(g) ==
    /\ pc[g] = "done"
    /\ ret[g].err = Nil
    /\ prev = Nil
    /\ prev' = Ptr([in |-> argValue[g], doc |-> ret[g].doc])
    /\ Forget(g)

Init ==
    /\ bootstrapTmpl = envoyCfgFileName
    /\ store = InitialStore
    /\ pc = [g \in Goroutines |-> "idle"]
    /\ proxyMetrics = [g \in Goroutines |-> Nil]
    /\ argValue = [g \in Goroutines |-> ZeroValue]
    /\ enablePrometheus = [g \in Goroutines |-> FALSE]
    /\ metricSinks = [g \in Goroutines |-> <<>>]
    /\ ProxyStatsMatcher = [g \in Goroutines |-> ZeroStatsMatcher]
    /\ fresh = [g \in Goroutines |-> <<>>]
    /\ cfg = [g \in Goroutines |-> ZeroConfig]
    /\ ret = [g \in Goroutines |-> ZeroReturn]
    /\ prev = Nil

\* One caller, one call after another.
Next ==
    \/ \E p \in Policies : Begin(Main, p)
    \/ AppendBaseline(Main)
    \/ Render(Main)
    \/ Discard(Main)

Spec == Init /\ [][Next]_vars

\* One caller, one call after another, that keeps the result of an earlier call.
NextRemember ==
    \/ \E p \in RememberPolicies : Begin(Main, p)
    \/ AppendBaseline(Main)
    \/ Render(Main)
    \/ Discard(Main)
    \/ Remember(Main)

SpecRemember == Init /\ [][NextRemember]_vars

\* Callers in several goroutines, their calls interleaved.
NextConcurrent ==
    \E g \in Goroutines :
        \/ \E p \in ConcurrentPolicies : Begin(g, p)
        \/ AppendBaseline(g)
        \/ Render(g)
        \/ Discard(g)

SpecConcurrent == Init /\ [][NextConcurrent]_vars

----------------------------------------------------------------------------
\* Reading a rendered document back.

Done(g) == pc[g] = "done"
Succeeded(g) == pc[g] = "done" /\ ret[g].err = Nil

Range(s) == {s[i] : i \in 1..Len(s)}

Count(doc, line) == Cardinality({k \in 1..Len(doc) : doc[k] = line})

\* the positions, ascending, of the lines of doc that are in lines
Positions(doc, lines) ==
    LET at == {k \in 1..Len(doc) : doc[k] \in lines}
    IN  [i \in 1..Cardinality(at) |->
            CHOOSE k \in at : Cardinality({j \in at : j < k}) = i - 1]

\* the elements of s whose earlier elements all differ from them, in order
FirstOccurrences(s) ==
    LET keep == {i \in 1..Len(s) : \A j \in 1..(i - 1) : s[j] # s[i]}
        at   == Positions([i \in 1..Len(s) |-> i \in keep], {TRUE})
    IN  [i \in 1..Len(at) |-> s[at[i]]]

BaselinePrefixes == <<"cluster_manager", "listener_manager", "server", "cluster.xds-grpc">>

SinkClusterName(i) == "  - name: otel_metric_sink_" \o Itoa(i)
SinkClusterLoad(i) == "      cluster_name: otel_metric_sink_" \o Itoa(i)
SinkReference(i) == "        cluster_name: otel_metric_sink_" \o Itoa(i)
AddressLine(h) == "                address: " \o h
PortLine(p) == "                port_value: " \o Itoa(p)
StatsSinkName == "- name: \"envoy.stat_sinks.open_telemetry\""
PrefixLine(s) == "      - prefix: \"" \o s \o "\""

\* indices a sink cluster or a sink reference may carry
SinkIndices == 0..(MaxSinks + 1)
SinkClusterNames == {SinkClusterName(i) : i \in SinkIndices}
SinkReferences == {SinkReference(i) : i \in SinkIndices}

\* the lines a suffix or regex entry of the bounded inputs renders to
OtherPatternLines ==
    {"      - suffix: \"upstream_rq_timeout\"",
     "      - safe_regex:",
     "          google_re2: {}",
     "          regex: \".*\\\\.rq_\\u003C5\\u003E\\u003D.*\""}

\* the inclusion list of a document: the lines from "patterns:" to "dynamic_resources:"
InclusionList(doc) ==
    LET from == Positions(doc, {"      patterns:"})
        to   == Positions(doc, {"dynamic_resources:"})
    IN  IF Len(from) = 1 /\ Len(to) = 1 THEN SubSeq(doc, from[1] + 1, to[1] - 1)
        ELSE <<"malformed">>

\* the sink clusters of a document, in order: name, load assignment, address and port lines
SinkClusters(doc) ==
    LET at == Positions(doc, SinkClusterNames)
    IN  [i \in 1..Len(at) |->
            IF at[i] + 17 <= Len(doc)
            THEN [name |-> doc[at[i]], load |-> doc[at[i] + 10],
                  address |-> doc[at[i] + 16], port |-> doc[at[i] + 17]]
            ELSE [name |-> doc[at[i]], load |-> "", address |-> "", port |-> ""]]

\* the "host:port" key a sink cluster's endpoint stands for
KeyOf(h, p) == h \o ":" \o Itoa(p)
ClusterKey(c) ==
    LET t == {x \in Hosts \X Ports : AddressLine(x[1]) = c.address /\ PortLine(x[2]) = c.port}
    IN  IF t = {} THEN "unknown" ELSE LET x == CHOOSE x \in t : TRUE IN KeyOf(x[1], x[2])

\* the OpenTelemetry targets of a sink list, in order, and their keys
OtelTargets(sinks) ==
    LET with == SelectSeq(sinks, LAMBDA s : s.OpenTelemetry # Nil)
    IN  [i \in 1..Len(with) |-> Deref(with[i].OpenTelemetry)]
OtelKeys(sinks) ==
    LET t == OtelTargets(sinks) IN [i \in 1..Len(t) |-> KeyOf(t[i].Host, t[i].Port)]

\* the targets that remain when every later target with an earlier key is dropped
DeduplicatedTargets(sinks) ==
    LET t    == OtelTargets(sinks)
        keep == {i \in 1..Len(t) :
                    \A j \in 1..(i - 1) : KeyOf(t[j].Host, t[j].Port) # KeyOf(t[i].Host, t[i].Port)}
        at   == Positions([i \in 1..Len(t) |-> i \in keep], {TRUE})
    IN  [i \in 1..Len(at) |-> t[at[i]]]

----------------------------------------------------------------------------
\* The claims.

\* C1: the emitted sink clusters are as many as the distinct "host:port" keys among
\* the sinks with an OpenTelemetry target, no two have the same key, and their keys
\* are in the order of first occurrence in the input.
C1_SinkClustersDeduplicated ==
    \A g \in Goroutines :
        Succeeded(g) =>
            LET keysIn  == OtelKeys(argValue[g].Sinks)
                cs      == SinkClusters(ret[g].doc)
                emitted == [i \in 1..Len(cs) |-> ClusterKey(cs[i])]
            IN  /\ Len(emitted) = Cardinality(Range(keysIn))
                /\ \A i, j \in 1..Len(emitted) : i # j => emitted[i] # emitted[j]
                /\ emitted = FirstOccurrences(keysIn)

\* a call whose third sink repeats the key of its first and differs from its second
C1_Witness ==
    \E g \in Goroutines :
        /\ Succeeded(g)
        /\ Len(OtelKeys(argValue[g].Sinks)) = 3
        /\ OtelKeys(argValue[g].Sinks)[1] = OtelKeys(argValue[g].Sinks)[3]
        /\ OtelKeys(argValue[g].Sinks)[1] # OtelKeys(argValue[g].Sinks)[2]
        /\ Len(SinkClusters(ret[g].doc)) = 2

\* C2: the rendered prefix-inclusion list is the caller's prefix list followed by
\* cluster_manager, listener_manager, server, cluster.xds-grpc, nothing removed,
\* reordered or deduplicated; with an absent policy it is the baseline.
C2_PrefixesThenBaseline ==
    \A g \in Goroutines :
        Succeeded(g) =>
            LET want == argValue[g].Prefixs \o BaselinePrefixes
                list == InclusionList(ret[g].doc)
            IN  /\ Len(list) >= Len(want)
                /\ \A i \in 1..Len(want) : list[i] = PrefixLine(want[i])
                /\ \A i \in (Len(want) + 1)..Len(list) : list[i] \in OtherPatternLines
                /\ proxyMetrics[g] = Nil =>
                      list = [i \in 1..4 |-> PrefixLine(BaselinePrefixes[i])]

\* a call whose caller list holds "server", rendered twice, in storage with spare capacity
C2_Witness ==
    \E g \in Goroutines :
        /\ Succeeded(g)
        /\ argValue[g].Prefixs = <<"custom_", "server">>
        /\ Count(ret[g].doc, PrefixLine("server")) = 2
        /\ ret[g].doc[15] = PrefixLine("custom_")

\* C3: EnablePrometheus is true exactly when the policy and its Prometheus sub-object
\* are present; when false the document has no /stats/prometheus route and no
\* prometheus_stats cluster, when true exactly one of each, the cluster's endpoint
\* being the admin address and port.
C3_PrometheusBlocks ==
    \A g \in Goroutines :
        LET on == proxyMetrics[g] # Nil /\ Deref(proxyMetrics[g]).Prometheus # Nil
        IN  /\ pc[g] # "idle" => enablePrometheus[g] = on
            /\ Succeeded(g) =>
                  LET doc == ret[g].doc
                      at  == Positions(doc, {"  - name: prometheus_stats"})
                      n   == IF on THEN 1 ELSE 0
                  IN  /\ Count(doc, "                  prefix: /stats/prometheus") = n
                      /\ Count(doc, "                  cluster: prometheus_stats") = n
                      /\ Len(at) = n
                      /\ on => /\ doc[at[1] + 11] = "                address: 127.0.0.1"
                               /\ doc[at[1] + 12] = "                port_value: 19000"

\* a call with the Prometheus sub-object present, returned with the route
C3_Witness ==
    \E g \in Goroutines :
        /\ Succeeded(g)
        /\ proxyMetrics[g] # Nil
        /\ Deref(proxyMetrics[g]).Prometheus # Nil
        /\ Count(ret[g].doc, "                  cluster: prometheus_stats") = 1

\* C4: the sink clusters are named otel_metric_sink_0 .. otel_metric_sink_(n-1) in
\* order, n the length of the deduplicated sink sequence, and cluster i carries the
\* address and port of the i-th deduplicated sink; a dropped duplicate takes no index.
C4_IndicesAfterDeduplication ==
    \A g \in Goroutines :
        Succeeded(g) =>
            LET want == DeduplicatedTargets(argValue[g].Sinks)
                cs   == SinkClusters(ret[g].doc)
            IN  /\ Len(cs) = Len(want)
                /\ \A i \in 1..Len(cs) :
                      /\ cs[i].name = SinkClusterName(i - 1)
                      /\ cs[i].load = SinkClusterLoad(i - 1)
                      /\ cs[i].address = AddressLine(want[i].Host)
                      /\ cs[i].port = PortLine(want[i].Port)

\* a call whose second sink duplicates the first: the third sink is cluster 1
C4_Witness ==
    \E g \in Goroutines :
        /\ Succeeded(g)
        /\ argValue[g].Sinks = <<OtelSink("m", 4317), OtelSink("m", 4317), OtelSink("n", 4318)>>
        /\ Len(SinkClusters(ret[g].doc)) = 2
        /\ SinkClusters(ret[g].doc)[2].name = SinkClusterName(1)
        /\ SinkClusters(ret[g].doc)[2].address = AddressLine("n")

\* the document the call of goroutine g returns when no other call runs beside it:
\* the template over its parameters, the prefix list being the caller's list as it
\* read at the call followed by the baseline
DocumentAlone(g) ==
    ExecuteTemplate([Deref(cfg[g].parameters) EXCEPT
        !.ProxyStatsMatcher.InclusionPrefixs = argValue[g].Prefixs \o BaselinePrefixes])

\* C5: in every interleaving of calls, each call returns the document it would
\* return when run alone (no call writes memory that another call reads).
C5_ConcurrentCallsIndependent ==
    \A g \in Goroutines : Succeeded(g) => ret[g].doc = DocumentAlone(g)

C8_SinksWithoutTargetSkipped ==
    \A g \in Goroutines :
        (pc[g] # "idle" /\ \E i \in 1..Len(argValue[g].Sinks) : argValue[g].Sinks[i] = NoOtel) =>
            LET want == DeduplicatedTargets(
                            SelectSeq(argValue[g].Sinks, LAMBDA s : s # NoOtel))
            IN  /\ metricSinks[g] =
                      [i \in 1..Len(want) |-> [Address |-> want[i].Host, Port |-> want[i].Port]]
                /\ pc[g] \in {"append", "render"} => ret[g].err = Nil
                /\ Succeeded(g) =>
                      /\ Count(ret[g].doc, StatsSinkName) = Len(want)
                      /\ Positions(ret[g].doc, SinkClusterNames) =
                            Positions(ret[g].doc, {SinkClusterName(i - 1) : i \in 1..Len(want)})
                      /\ Len(Positions(ret[g].doc, SinkClusterNames)) = Len(want)

\* a call whose first two entries have no target: its third entry is cluster 0
C8_Witness ==
    \E g \in Goroutines :
        /\ Succeeded(g)
        /\ Len(argValue[g].Sinks) = 3
        /\ argValue[g].Sinks[1] = NoOtel
        /\ argValue[g].Sinks[2] = NoOtel
        /\ argValue[g].Sinks[3] = OtelSink("n", 4317)
        /\ Count(ret[g].doc, SinkClusterName(0)) = 1
        /\ Count(ret[g].doc, StatsSinkName) = 1

\* C9: a call writes no element of the storage behind the caller's prefix list,
\* spare capacity included.
C9_CallerStorageUnwritten == [][store' = store]_vars

\* C10: every referenced cluster is defined exactly once: stats_sinks has one entry
\* per deduplicated sink, the i-th referencing otel_metric_sink_i, the name of one
\* emitted cluster; stats_sinks is present exactly when a sink remains; the
\* /stats/prometheus route references a defined prometheus_stats cluster; xds_cluster
\* is referenced and defined.
C10_ReferencedClustersDefined ==
    \A g \in Goroutines :
        Succeeded(g) =>
            LET doc  == ret[g].doc
                n    == Len(DeduplicatedTargets(argValue[g].Sinks))
                refs == Positions(doc, SinkReferences)
            IN  /\ Len(refs) = n
                /\ Count(doc, StatsSinkName) = n
                /\ \A i \in 1..Len(refs) :
                      /\ doc[refs[i]] = SinkReference(i - 1)
                      /\ Count(doc, SinkClusterName(i - 1)) = 1
                /\ Count(doc, "stats_sinks:") = (IF n > 0 THEN 1 ELSE 0)
                /\ Count(doc, "                  cluster: prometheus_stats") > 0
                      => Count(doc, "  - name: prometheus_stats") = 1
                /\ Count(doc, "        cluster_name: xds_cluster") = 1
                /\ Count(doc, "    name: xds_cluster") = 1

\* a call with two sinks left after deduplication and the Prometheus route
C10_Witness ==
    \E g \in Goroutines :
        /\ Succeeded(g)
        /\ Len(DeduplicatedTargets(argValue[g].Sinks)) = 2
        /\ Len(argValue[g].Sinks) = 3
        /\ Count(ret[g].doc, SinkReference(1)) = 1
        /\ Count(ret[g].doc, "                  cluster: prometheus_stats") = 1

====
